---- MODULE Spec2Model ----
(***************************************************************************)
(* TaxNews backend (src/server.js): RSS aggregation into an in-memory      *)
(* cache, read by GET /api/news, refreshed by POST /api/refresh, by a cron *)
(* job every ten minutes and once at startup.                              *)
(*                                                                         *)
(* Times are milliseconds since the epoch.  Date strings (ISO strings and  *)
(* feed pubDate strings) are records [day, ms]; Date parsing turns them    *)
(* back into milliseconds, and a string Date cannot parse gives NaN.       *)
(***************************************************************************)
EXTENDS Integers, Sequences, FiniteSets, TLC

(***************************************************************************)
(* Bounds of the model.                                                    *)
(***************************************************************************)
\* number of clock advances explored
MaxTicks == 3
\* number of fetchAllNews executions that may be in flight together
MaxInFlight == 2

(***************************************************************************)
(* Dates.                                                                  *)
(***************************************************************************)
MsPerDay == 24 * 60 * 60 * 1000
\* the clock advances in steps of five minutes
TickMs == 5 * 60 * 1000
\* '*/10 * * * *': the cron job fires when the minute is a multiple of ten
CronPeriodMs == 10 * 60 * 1000
\* 10 * 60 * 1000 in the GET /api/news handler
TTL == 10 * 60 * 1000
\* the instant the process starts
StartTime == MsPerDay

\* let lastUpdate = null
Null == [day |-> -1, ms |-> -1]
\* a pubDate string that new Date() cannot parse
BadDate == [day |-> -2, ms |-> -2]
\* the pubDate or isoDate of a feed entry that has none
None == [day |-> -3, ms |-> -3]
\* a pubDate or isoDate that is the empty string
EmptyDate == [day |-> -4, ms |-> -4]
\* the guid or link of a feed entry that has none; one that is the string s
\* is << s >>
Undefined == << >>

\* new Date(t).toISOString()
ToISOString(t) == [day |-> t \div MsPerDay, ms |-> t % MsPerDay]
\* new Date(str) is an invalid date (getTime() is NaN): str is none of the
\* dates, whose ms is the time of day (the day is negative before 1970)
IsNaNDate(str) == str.ms < 0
\* new Date(str).getTime(), for a string that parses
GetTime(str) == str.day * MsPerDay + str.ms

(***************************************************************************)
(* The source registry.                                                    *)
(***************************************************************************)
rssSources == << "taxheaven", "kathimerini-economy", "capital", "naftemporiki" >>
NumSources == Len(rssSources)

(***************************************************************************)
(* Text.  A string is the sequence of its characters, so that lower-casing *)
(* and substring search are computed as the engine computes them.  A title *)
(* or contentSnippet the feed entry does not have is UndefinedText.        *)
(***************************************************************************)
UndefinedText == << "undefined" >>

\* the letters with a small form, except capital sigma, and the small form
\* of each at the same position.  The tables cover the characters
\* of Basic Latin (without the grave accent), of Latin-1 and of the Greek
\* block from U+0384 to U+03FC; texts are taken to hold no other character.
UpperCase ==
    << "A", "B", "C", "D", "E", "F", "G", "H", "I", "J", "K", "L", "M", "N",
       "O", "P", "Q", "R", "S", "T", "U", "V", "W", "X", "Y", "Z", "À", "Á",
       "Â", "Ã", "Ä", "Å", "Æ", "Ç", "È", "É", "Ê", "Ë", "Ì", "Í", "Î", "Ï",
       "Ð", "Ñ", "Ò", "Ó", "Ô", "Õ", "Ö", "Ø", "Ù", "Ú", "Û", "Ü", "Ý", "Þ",
       "Ά", "Έ", "Ή", "Ί", "Ό", "Ύ", "Ώ", "Α", "Β", "Γ", "Δ", "Ε", "Ζ", "Η",
       "Θ", "Ι", "Κ", "Λ", "Μ", "Ν", "Ξ", "Ο", "Π", "Ρ", "Τ", "Υ", "Φ", "Χ",
       "Ψ", "Ω", "Ϊ", "Ϋ", "Ϗ", "Ϙ", "Ϛ", "Ϝ", "Ϟ", "Ϡ", "Ϣ", "Ϥ", "Ϧ", "Ϩ",
       "Ϫ", "Ϭ", "Ϯ", "ϴ", "Ϸ", "Ϲ", "Ϻ" >>

LowerCase ==
    << "a", "b", "c", "d", "e", "f", "g", "h", "i", "j", "k", "l", "m", "n",
       "o", "p", "q", "r", "s", "t", "u", "v", "w", "x", "y", "z", "à", "á",
       "â", "ã", "ä", "å", "æ", "ç", "è", "é", "ê", "ë", "ì", "í", "î", "ï",
       "ð", "ñ", "ò", "ó", "ô", "õ", "ö", "ø", "ù", "ú", "û", "ü", "ý", "þ",
       "ά", "έ", "ή", "ί", "ό", "ύ", "ώ", "α", "β", "γ", "δ", "ε", "ζ", "η",
       "θ", "ι", "κ", "λ", "μ", "ν", "ξ", "ο", "π", "ρ", "τ", "υ", "φ", "χ",
       "ψ", "ω", "ϊ", "ϋ", "ϗ", "ϙ", "ϛ", "ϝ", "ϟ", "ϡ", "ϣ", "ϥ", "ϧ", "ϩ",
       "ϫ", "ϭ", "ϯ", "θ", "ϸ", "ϲ", "ϻ" >>

UpperCaseLetters == { UpperCase[k] : k \in 1..Len(UpperCase) }
LowerCaseLetters == { LowerCase[k] : k \in 1..Len(LowerCase) }

\* the other cased letters: they have no small form of their own, or are
\* small already
OtherCasedLetters ==
    { "ª", "µ", "º", "ß", "ÿ", "ΐ", "ΰ", "ϐ", "ϑ", "ϒ", "ϓ", "ϔ", "ϕ", "ϖ",
       "ϰ", "ϱ", "ϳ", "ϵ", "ϼ" }

\* the characters the casing rules look through; the last is the soft
\* hyphen (U+00AD)
CaseIgnorable ==
    { "'", ".", ":", "^", "¨", "¯", "´", "·", "¸", "΄", "΅", "·", "­" }

IsCaseIgnorable(c) == c \in CaseIgnorable

\* the letters that are capital or small
CasedLetters ==
    { "Σ", "σ", "ς" } \cup UpperCaseLetters \cup LowerCaseLetters \cup OtherCasedLetters

IsCased(c) == ~IsCaseIgnorable(c) /\ c \in CasedLetters

\* the capital sigma at position i ends a word: looking through the
\* case-ignorable characters, a cased letter comes before it and none after
IsFinalSigma(str, i) ==
    /\ \E j \in 1..(i - 1) :
         /\ IsCased(str[j])
         /\ \A k \in (j + 1)..(i - 1) : IsCaseIgnorable(str[k])
    /\ ~\E j \in (i + 1)..Len(str) :
         /\ IsCased(str[j])
         /\ \A k \in (i + 1)..(j - 1) : IsCaseIgnorable(str[k])

\* String.prototype.toLowerCase on the character at position i
LowerAt(str, i) ==
    IF str[i] = "Σ"
    THEN IF IsFinalSigma(str, i) THEN "ς" ELSE "σ"
    ELSE IF str[i] \in UpperCaseLetters
         THEN LowerCase[CHOOSE k \in 1..Len(UpperCase) : str[i] = UpperCase[k]]
         ELSE str[i]

ToLowerCase(str) == [ i \in 1..Len(str) |-> LowerAt(str, i) ]

\* String.prototype.includes
Includes(str, keyword) ==
    \E i \in 0..(Len(str) - Len(keyword)) :
        SubSeq(str, i + 1, i + Len(keyword)) = keyword

\* keywords.some(keyword => text.includes(keyword))
Some(keywords, text) == \E k \in 1..Len(keywords) : Includes(text, keywords[k])

\* title + ' ': an absent title is concatenated as the word undefined
TitleString(title) ==
    IF title = UndefinedText
    THEN << "u", "n", "d", "e", "f", "i", "n", "e", "d" >>
    ELSE title

\* (title + ' ' + (description || '')).toLowerCase()
TextOf(title, description) ==
    ToLowerCase(TitleString(title) \o << " " >>
                  \o (IF description = UndefinedText THEN << >> ELSE description))

highPriorityKeywords ==
    << << "ε", "π", "ε", "ί", "γ" >>,
       << "π", "ρ", "ο", "σ", "ο", "χ", "ή" >>,
       << "λ", "ή", "γ", "ε", "ι" >>,
       << "τ", "ε", "λ", "ε", "υ", "τ", "α", "ί" >>,
       << "ά", "μ", "ε", "σ", "α" >> >>

mediumPriorityKeywords ==
    << << "σ", "η", "μ", "α", "ν", "τ", "ι", "κ" >>,
       << "ν", "έ" >>,
       << "α", "λ", "λ", "α", "γ" >>,
       << "α", "ν", "α", "κ", "ο", "ί", "ν", "ω", "σ", "η" >> >>

\* the two tests in the other order
determinePriority_MediumFirst(title, description) ==
    LET text == TextOf(title, description)
    IN  IF Some(mediumPriorityKeywords, text) THEN "medium"
        ELSE IF Some(highPriorityKeywords, text) THEN "high"
        ELSE "low"

\* determinePriority (lines 82-90)
determinePriority(title, description) ==
    LET text == TextOf(title, description)
    IN  IF Some(highPriorityKeywords, text) THEN "high"
        ELSE IF Some(mediumPriorityKeywords, text) THEN "medium"
        ELSE "low"

breakingKeywords ==
    << << "ε", "π", "ε", "ί", "γ" >>,
       << "b", "r", "e", "a", "k", "i", "n", "g" >>,
       << "έ", "κ", "τ", "α", "κ", "τ", "ο" >>,
       << "π", "ρ", "ο", "σ", "ο", "χ", "ή" >> >>

\* the keywords searched in the text as the feed wrote it
isBreakingNews_CaseSensitive(title, description) ==
    Some(breakingKeywords,
         TitleString(title) \o << " " >>
           \o (IF description = UndefinedText THEN << >> ELSE description))

\* isBreakingNews (lines 92-96)
isBreakingNews(title, description) ==
    Some(breakingKeywords, TextOf(title, description))

\* the entries of the tagKeywords object, in insertion order
tagKeywords ==
    << [ tag |-> "Νέο",       keywords |-> << << "ν", "έ" >>, << "κ", "α", "ι", "ν", "ο", "ύ", "ρ", "γ", "ι" >> >> ],
       [ tag |-> "Επείγον",   keywords |-> << << "ε", "π", "ε", "ί", "γ" >>, << "ά", "μ", "ε", "σ", "α" >> >> ],
       [ tag |-> "Φορολογία", keywords |-> << << "φ", "ό", "ρ", "ο", "ς" >>, << "φ", "π", "α" >>, << "φ", "ο", "ρ", "ο", "λ", "ο", "γ" >> >> ],
       [ tag |-> "Επιδότηση", keywords |-> << << "ε", "π", "ι", "δ", "ό", "τ", "η", "σ", "η" >>,
                                              << "χ", "ρ", "η", "μ", "α", "τ", "ο", "δ", "ό", "τ", "η", "σ", "η" >> >> ] >>

\* the tags array after the loop of lines 109-113
MatchingTags(text) ==
    LET hits == SelectSeq(tagKeywords, LAMBDA e : Some(e.keywords, text))
    IN  [ k \in 1..Len(hits) |-> hits[k].tag ]

\* Array.prototype.slice(0, n)
Slice(arr, n) == SubSeq(arr, 1, IF Len(arr) < n THEN Len(arr) ELSE n)

\* the tags returned without the slice
extractTags_NoSlice(title, description) ==
    MatchingTags(TextOf(title, description))

\* extractTags (lines 98-116)
extractTags(title, description) ==
    Slice(MatchingTags(TextOf(title, description)), 3)

(***************************************************************************)
(* fetchRSSFeed: the outcome of parser.parseURL is an input.               *)
(*   [kind |-> "reject"]            the request or the parse failed        *)
(*   [kind |-> "feed", items |-> s] the parsed feed, s a sequence of raw   *)
(*                                  entries [guid, link, pubDate, isoDate, *)
(*                                  title, contentSnippet]                 *)
(*   [kind |-> "oversize"]          a parsed feed with more entries than   *)
(*                                  the engine accepts as call arguments   *)
(***************************************************************************)
\* a guid or link that counts as true: present and not the empty string
Truthy(v) == v # Undefined /\ v # << "" >>

\* item.guid || item.link
GuidOrLink(raw) == IF Truthy(raw.guid) THEN raw.guid ELSE raw.link

\* ${v} in a template literal
TemplateString(v) == IF v = Undefined THEN "undefined" ELSE v[1]

\* a pubDate or isoDate that counts as true
TruthyDate(d) == d # None /\ d # EmptyDate

\* the isoDate the parser adds to an entry that has only a pubDate
IsoDateOf(pubDate) == IF IsNaNDate(pubDate) THEN None ELSE pubDate

\* the object built for one feed entry (lines 60-74), without the fields
\* copied from the entry or the source that nothing else reads
MapItem(src, raw, now) ==
    [ id          |-> << rssSources[src], TemplateString(GuidOrLink(raw)) >>,
      title       |-> raw.title,
      source      |-> rssSources[src],
      priority    |-> determinePriority(raw.title, raw.contentSnippet),
      tags        |-> extractTags(raw.title, raw.contentSnippet),
      publishedAt |-> IF TruthyDate(raw.pubDate) THEN raw.pubDate
                      ELSE IF TruthyDate(raw.isoDate) THEN raw.isoDate
                      ELSE ToISOString(now),
      url         |-> raw.link,
      isBreaking  |-> isBreakingNews(raw.title, raw.contentSnippet) ]

\* what fetchRSSFeed(source) resolves to: never rejects
fetchRSSFeed(src, outcome, now) ==
    IF outcome.kind # "feed"
    THEN << >>
    ELSE [ i \in 1..Len(outcome.items) |-> MapItem(src, outcome.items[i], now) ]

(***************************************************************************)
(* allNews.sort((a, b) => new Date(b.publishedAt) - new Date(a.publishedAt))*)
(* as the engine computes it: natural runs are counted (and reversed if    *)
(* strictly descending), runs shorter than the minimum run length are      *)
(* extended by binary insertion, and the runs are merged pairwise, with    *)
(* galloping, under the run-length invariant.  An array shorter than 64    *)
(* elements is a single run.  A comparator result of NaN counts as 0, so   *)
(* the order of the result depends on which comparisons are made: every    *)
(* step below makes the comparisons the engine makes, in its order.        *)
(* Indices and offsets are 0-based as in the engine; s[i + 1] is element i.*)
(***************************************************************************)
Compare(a, b) ==
    IF IsNaNDate(a.publishedAt) \/ IsNaNDate(b.publishedAt)
    THEN 0
    ELSE GetTime(b.publishedAt) - GetTime(a.publishedAt)

Reverse(s) == [ i \in 1..Len(s) |-> s[Len(s) + 1 - i] ]

\* length of the run starting at the first element, given that it has
\* reached n elements
RECURSIVE RunLength(_, _, _)
RunLength(s, n, descending) ==
    IF n >= Len(s) THEN n
    ELSE LET order == Compare(s[n + 1], s[n])
         IN  IF (descending /\ order >= 0) \/ (~descending /\ order < 0)
             THEN n
             ELSE RunLength(s, n + 1, descending)

\* the binary search of the insertion: the index (0-based count of elements
\* kept to the left) where pivot goes in s[left+1 .. right]
RECURSIVE InsertionPoint(_, _, _, _)
InsertionPoint(s, pivot, left, right) ==
    IF left >= right THEN left
    ELSE LET mid == left + ((right - left) \div 2)
         IN  IF Compare(pivot, s[mid + 1]) < 0
             THEN InsertionPoint(s, pivot, left, mid)
             ELSE InsertionPoint(s, pivot, mid + 1, right)

\* s with its first `start` elements already ordered: insert the rest
RECURSIVE BinaryInsertionSort(_, _)
BinaryInsertionSort(s, start) ==
    IF start >= Len(s) THEN s
    ELSE LET pivot == s[start + 1]
             left  == InsertionPoint(s, pivot, 0, start)
             moved == [ i \in 1..Len(s) |->
                          IF i <= left THEN s[i]
                          ELSE IF i = left + 1 THEN pivot
                          ELSE IF i <= start + 1 THEN s[i - 1]
                          ELSE s[i] ]
         IN  BinaryInsertionSort(moved, start + 1)

\* the number of wins in a row that starts galloping, at the start
kMinGallopWins == 7

\* the minimum run length for an array of n elements: n below 64, else the
\* six leading bits of n, plus one if any other bit is set
RECURSIVE ComputeMinRunLength(_, _)
ComputeMinRunLength(n, r) ==
    IF n >= 64
    THEN ComputeMinRunLength(n \div 2, IF n % 2 = 1 THEN 1 ELSE r)
    ELSE n + r

\* the comparison of a gallop: element against key for GallopLeft, key
\* against element for GallopRight
GallopOrder(leftmost, arr, key, i) ==
    IF leftmost THEN Compare(arr[i + 1], key) ELSE Compare(key, arr[i + 1])

\* the exponential search of a gallop from base + hint, towards the end of
\* the run (step = 1) or its start (step = -1), until the comparison turns
\* (negative if untilNegative, else non-negative) or maxOfs is reached:
\* the last offset passed and the offset reached
RECURSIVE GallopScan(_, _, _, _, _, _, _, _, _)
GallopScan(leftmost, arr, key, from, step, untilNegative, lastOfs, offset, maxOfs) ==
    IF offset >= maxOfs THEN << lastOfs, offset >>
    ELSE LET order == GallopOrder(leftmost, arr, key, from + step * offset)
         IN  IF (order < 0) = untilNegative
             THEN << lastOfs, offset >>
             ELSE GallopScan(leftmost, arr, key, from, step, untilNegative,
                             offset, 2 * offset + 1, maxOfs)

\* the binary search that ends a gallop, between lastOfs and offset
RECURSIVE GallopSearch(_, _, _, _, _, _)
GallopSearch(leftmost, arr, key, base, lastOfs, offset) ==
    IF lastOfs >= offset THEN offset
    ELSE LET m     == lastOfs + ((offset - lastOfs) \div 2)
             below == GallopOrder(leftmost, arr, key, base + m) < 0
         IN  IF below = leftmost
             THEN GallopSearch(leftmost, arr, key, base, m + 1, offset)
             ELSE GallopSearch(leftmost, arr, key, base, lastOfs, m)

\* the binary search between the last two offsets of the scan
GallopEnd(leftmost, arr, key, base, hint, forward, maxOfs, scan) ==
    LET reached == IF scan[2] > maxOfs THEN maxOfs ELSE scan[2]
    IN  GallopSearch(leftmost, arr, key, base,
                     (IF forward THEN scan[1] + hint ELSE hint - reached) + 1,
                     IF forward THEN reached + hint ELSE hint - scan[1])

\* the scan towards the end of the run (forward) or towards its start
GallopTowards(leftmost, arr, key, base, hint, first, forward, maxOfs) ==
    GallopEnd(leftmost, arr, key, base, hint, forward, maxOfs,
              GallopScan(leftmost, arr, key, base + hint,
                         IF forward THEN 1 ELSE -1, ~first, 0, 1, maxOfs))

\* first: the comparison at the hint is negative
GallopFrom(leftmost, arr, key, base, length, hint, first) ==
    GallopTowards(leftmost, arr, key, base, hint, first, first = leftmost,
                  IF first = leftmost THEN length - hint ELSE hint + 1)

\* GallopLeft (leftmost) and GallopRight: the offset in the run of `length`
\* elements at `base` where key belongs, before (GallopLeft) or after
\* (GallopRight) the elements equal to it, searched from offset hint
Gallop(leftmost, arr, key, base, length, hint) ==
    GallopFrom(leftmost, arr, key, base, length, hint,
               GallopOrder(leftmost, arr, key, base + hint) < 0)

GallopLeft(arr, key, base, length, hint) == Gallop(TRUE, arr, key, base, length, hint)

GallopRight(arr, key, base, length, hint) == Gallop(FALSE, arr, key, base, length, hint)

Max(a, b) == IF a > b THEN a ELSE b

(***************************************************************************)
(* MergeLow: the runs A (copied to the temporary array) and B are merged   *)
(* from the left.  A merge in progress is a record                         *)
(*   A, B      the two runs                                                *)
(*   na, nb    MergeLow: the elements of A and of B already taken;         *)
(*             MergeHigh: the elements of A and of B not yet taken         *)
(*   out       the part of the result written so far                       *)
(*   minGallop, winsA, nofWinsB as in the engine (winsA is nofWinsA)       *)
(*   exit      "" while merging, else the label left through: "Succeed",   *)
(*             "CopyB" or "CopyA"                                          *)
(***************************************************************************)
\* one element at a time, until a run is used up or one run wins minGallop
\* times in a row
RECURSIVE MergeLowPairs(_)
MergeLowPairs(m) ==
    IF Compare(m.B[m.nb + 1], m.A[m.na + 1]) < 0
    THEN LET t == [ m EXCEPT !.out = Append(@, m.B[m.nb + 1]), !.nb = @ + 1,
                             !.winsB = @ + 1, !.winsA = 0 ]
         IN  IF t.nb = Len(t.B) THEN [ t EXCEPT !.exit = "Succeed" ]
             ELSE IF t.winsB >= t.minGallop THEN t
             ELSE MergeLowPairs(t)
    ELSE LET t == [ m EXCEPT !.out = Append(@, m.A[m.na + 1]), !.na = @ + 1,
                             !.winsA = @ + 1, !.winsB = 0 ]
         IN  IF Len(t.A) - t.na = 1 THEN [ t EXCEPT !.exit = "CopyB" ]
             ELSE IF t.winsA >= t.minGallop THEN t
             ELSE MergeLowPairs(t)

\* galloping: whole stretches of A, then of B, are taken at once, while
\* either stretch is at least kMinGallopWins long
RECURSIVE MergeLowGallop(_, _)
\* the nofWinsB elements of B that go before the next element of A, then
\* that element
MergeLowTakeB(m, nofWinsB) ==
    LET t == [ m EXCEPT !.winsB = nofWinsB,
                        !.out = @ \o SubSeq(m.B, m.nb + 1, m.nb + nofWinsB),
                        !.nb = @ + nofWinsB ]
    IN  IF t.nb = Len(t.B) THEN [ t EXCEPT !.exit = "Succeed" ]
        ELSE IF Len(t.A) - (t.na + 1) = 1
        THEN [ t EXCEPT !.out = Append(@, t.A[t.na + 1]), !.na = @ + 1,
                        !.exit = "CopyB" ]
        ELSE MergeLowGallop([ t EXCEPT !.out = Append(@, t.A[t.na + 1]), !.na = @ + 1 ],
                            FALSE)

\* the nofWinsA elements of A that go before the next element of B, then
\* that element
MergeLowTakeA(m, nofWinsA) ==
    LET t == [ m EXCEPT !.winsA = nofWinsA,
                        !.out = @ \o SubSeq(m.A, m.na + 1, m.na + nofWinsA),
                        !.na = @ + nofWinsA ]
    IN  IF nofWinsA > 0 /\ Len(t.A) - t.na = 1 THEN [ t EXCEPT !.exit = "CopyB" ]
        ELSE IF nofWinsA > 0 /\ Len(t.A) - t.na = 0 THEN [ t EXCEPT !.exit = "Succeed" ]
        ELSE IF t.nb + 1 = Len(t.B)
        THEN [ t EXCEPT !.out = Append(@, t.B[t.nb + 1]), !.nb = @ + 1,
                        !.exit = "Succeed" ]
        ELSE MergeLowTakeB([ t EXCEPT !.out = Append(@, t.B[t.nb + 1]), !.nb = @ + 1 ],
                           GallopLeft(t.B, t.A[t.na + 1], t.nb + 1,
                                      Len(t.B) - (t.nb + 1), 0))

MergeLowGallop(m, firstIteration) ==
    IF ~(m.winsA >= kMinGallopWins \/ m.winsB >= kMinGallopWins \/ firstIteration)
    THEN m
    ELSE MergeLowTakeA([ m EXCEPT !.minGallop = Max(1, @ - 1) ],
                       GallopRight(m.A, m.B[m.nb + 1], m.na, Len(m.A) - m.na, 0))

RECURSIVE MergeLowLoop(_)
MergeLowAfterGallop(m) ==
    IF m.exit # "" THEN m
    ELSE MergeLowLoop([ m EXCEPT !.minGallop = @ + 1 ])

MergeLowAfterPairs(m) ==
    IF m.exit # "" THEN m
    ELSE MergeLowAfterGallop(MergeLowGallop([ m EXCEPT !.minGallop = @ + 1 ], TRUE))

MergeLowLoop(m) ==
    MergeLowAfterPairs(MergeLowPairs([ m EXCEPT !.winsA = 0, !.winsB = 0 ]))

\* the rest of the run that is not used up is copied
MergeLowFinish(m) ==
    [ merged    |-> IF m.exit = "Succeed"
                    THEN m.out \o SubSeq(m.A, m.na + 1, Len(m.A))
                               \o SubSeq(m.B, m.nb + 1, Len(m.B))
                    ELSE m.out \o SubSeq(m.B, m.nb + 1, Len(m.B))
                               \o SubSeq(m.A, m.na + 1, Len(m.A)),
      minGallop |-> m.minGallop ]

\* the merged run and the new minGallop
MergeLow(A, B, minGallop) ==
    LET start == [ A |-> A, B |-> B, na |-> 0, nb |-> 1, out |-> << B[1] >>,
                   minGallop |-> minGallop, winsA |-> 0, winsB |-> 0, exit |-> "" ]
    IN  MergeLowFinish(IF Len(B) = 1 THEN [ start EXCEPT !.exit = "Succeed" ]
                       ELSE IF Len(A) = 1 THEN [ start EXCEPT !.exit = "CopyB" ]
                       ELSE MergeLowLoop(start))

(***************************************************************************)
(* MergeHigh: B is copied to the temporary array and the runs are merged   *)
(* from the right.                                                         *)
(***************************************************************************)
RECURSIVE MergeHighPairs(_)
MergeHighPairs(m) ==
    IF Compare(m.B[m.nb], m.A[m.na]) < 0
    THEN LET t == [ m EXCEPT !.out = << m.A[m.na] >> \o @, !.na = @ - 1,
                             !.winsA = @ + 1, !.winsB = 0 ]
         IN  IF t.na = 0 THEN [ t EXCEPT !.exit = "Succeed" ]
             ELSE IF t.winsA >= t.minGallop THEN t
             ELSE MergeHighPairs(t)
    ELSE LET t == [ m EXCEPT !.out = << m.B[m.nb] >> \o @, !.nb = @ - 1,
                             !.winsB = @ + 1, !.winsA = 0 ]
         IN  IF t.nb = 1 THEN [ t EXCEPT !.exit = "CopyA" ]
             ELSE IF t.winsB >= t.minGallop THEN t
             ELSE MergeHighPairs(t)

RECURSIVE MergeHighGallop(_, _)
\* the elements of B from k on go after the last element of A left, then
\* that element
MergeHighTakeB(m, k) ==
    LET t == [ m EXCEPT !.winsB = m.nb - k,
                        !.out = SubSeq(m.B, k + 1, m.nb) \o @,
                        !.nb = k ]
    IN  IF t.winsB > 0 /\ t.nb = 1 THEN [ t EXCEPT !.exit = "CopyA" ]
        ELSE IF t.winsB > 0 /\ t.nb = 0 THEN [ t EXCEPT !.exit = "Succeed" ]
        ELSE IF t.na - 1 = 0
        THEN [ t EXCEPT !.out = << t.A[t.na] >> \o @, !.na = @ - 1,
                        !.exit = "Succeed" ]
        ELSE MergeHighGallop([ t EXCEPT !.out = << t.A[t.na] >> \o @, !.na = @ - 1 ],
                             FALSE)

\* the elements of A from k on go after the last element of B left, then
\* that element
MergeHighTakeA(m, k) ==
    LET t == [ m EXCEPT !.winsA = m.na - k,
                        !.out = SubSeq(m.A, k + 1, m.na) \o @,
                        !.na = k ]
    IN  IF t.winsA > 0 /\ t.na = 0 THEN [ t EXCEPT !.exit = "Succeed" ]
        ELSE IF t.nb - 1 = 1
        THEN [ t EXCEPT !.out = << t.B[t.nb] >> \o @, !.nb = @ - 1,
                        !.exit = "CopyA" ]
        ELSE MergeHighTakeB([ t EXCEPT !.out = << t.B[t.nb] >> \o @, !.nb = @ - 1 ],
                            GallopLeft(t.B, t.A[t.na], 0, t.nb - 1, t.nb - 2))

MergeHighGallop(m, firstIteration) ==
    IF ~(m.winsA >= kMinGallopWins \/ m.winsB >= kMinGallopWins \/ firstIteration)
    THEN m
    ELSE MergeHighTakeA([ m EXCEPT !.minGallop = Max(1, @ - 1) ],
                        GallopRight(m.A, m.B[m.nb], 0, m.na, m.na - 1))

RECURSIVE MergeHighLoop(_)
MergeHighAfterGallop(m) ==
    IF m.exit # "" THEN m
    ELSE MergeHighLoop([ m EXCEPT !.minGallop = @ + 1 ])

MergeHighAfterPairs(m) ==
    IF m.exit # "" THEN m
    ELSE MergeHighAfterGallop(MergeHighGallop([ m EXCEPT !.minGallop = @ + 1 ], TRUE))

MergeHighLoop(m) ==
    MergeHighAfterPairs(MergeHighPairs([ m EXCEPT !.winsA = 0, !.winsB = 0 ]))

MergeHighFinish(m) ==
    [ merged    |-> IF m.exit = "Succeed"
                    THEN SubSeq(m.A, 1, m.na) \o SubSeq(m.B, 1, m.nb) \o m.out
                    ELSE SubSeq(m.B, 1, m.nb) \o SubSeq(m.A, 1, m.na) \o m.out,
      minGallop |-> m.minGallop ]

MergeHigh(A, B, minGallop) ==
    LET start == [ A |-> A, B |-> B, na |-> Len(A) - 1, nb |-> Len(B),
                   out |-> << A[Len(A)] >>,
                   minGallop |-> minGallop, winsA |-> 0, winsB |-> 0, exit |-> "" ]
    IN  MergeHighFinish(IF Len(A) = 1 THEN [ start EXCEPT !.exit = "Succeed" ]
                        ELSE IF Len(B) = 1 THEN [ start EXCEPT !.exit = "CopyA" ]
                        ELSE MergeHighLoop(start))

(***************************************************************************)
(* The sort in progress is a record                                        *)
(*   arr        the array                                                  *)
(*   runs       the stack of pending runs, each [base, length]             *)
(*   minGallop  the threshold the merges adapt                             *)
(***************************************************************************)
\* the merged run is stored between the k elements of A that were in place
\* and the elements of B from lenB on that were
MergeAtStore(st, runs, baseA, baseB, k, lenB, done) ==
    [ arr |-> SubSeq(st.arr, 1, baseA + k) \o done.merged
                \o SubSeq(st.arr, baseB + lenB + 1, Len(st.arr)),
      runs |-> runs,
      minGallop |-> done.minGallop ]

MergeAtRest(st, runs, baseA, A, baseB, B, k, lenB) ==
    IF k = Len(A) \/ lenB = 0
    THEN [ st EXCEPT !.runs = runs ]
    ELSE MergeAtStore(st, runs, baseA, baseB, k, lenB,
                      IF Len(A) - k <= lenB
                      THEN MergeLow(SubSeq(A, k + 1, Len(A)), SubSeq(B, 1, lenB),
                                    st.minGallop)
                      ELSE MergeHigh(SubSeq(A, k + 1, Len(A)), SubSeq(B, 1, lenB),
                                     st.minGallop))

\* the runs A at baseA and B at baseB become one run of the stack
MergeAtRuns(st, i, baseA, A, baseB, B) ==
    MergeAtRest(st,
                [ k \in 1..(Len(st.runs) - 1) |->
                    IF k = i + 1 THEN [ base |-> baseA, length |-> Len(A) + Len(B) ]
                    ELSE IF k < i + 1 THEN st.runs[k]
                    ELSE st.runs[k + 1] ],
                baseA, A, baseB, B,
                GallopRight(A, B[1], 0, Len(A), 0),
                GallopLeft(B, A[Len(A)], 0, Len(B), Len(B) - 1))

\* the runs at i and i + 1 of the stack are merged
MergeAt(st, i) ==
    MergeAtRuns(st, i,
                st.runs[i + 1].base,
                SubSeq(st.arr, st.runs[i + 1].base + 1,
                       st.runs[i + 1].base + st.runs[i + 1].length),
                st.runs[i + 2].base,
                SubSeq(st.arr, st.runs[i + 2].base + 1,
                       st.runs[i + 2].base + st.runs[i + 2].length))

\* the run at n of the stack is shorter than the run two below it by more
\* than the run below it
RunInvariantEstablished(runs, n) ==
    IF n < 2 THEN TRUE
    ELSE runs[n - 1].length > runs[n].length + runs[n + 1].length

\* after a run is pushed: merge until the invariant holds again and the
\* last run is shorter than the one below it
RECURSIVE MergeCollapse(_)
MergeCollapse(st) ==
    IF Len(st.runs) <= 1 THEN st
    ELSE LET n == Len(st.runs) - 2
             broken == \/ ~RunInvariantEstablished(st.runs, n + 1)
                       \/ ~RunInvariantEstablished(st.runs, n)
         IN  IF broken \/ st.runs[n + 1].length <= st.runs[n + 2].length
             THEN MergeCollapse(MergeAt(st,
                      IF broken /\ st.runs[n].length < st.runs[n + 2].length
                      THEN n - 1 ELSE n))
             ELSE st

\* at the end: merge whatever runs are left
RECURSIVE MergeForceCollapse(_)
MergeForceCollapse(st) ==
    IF Len(st.runs) <= 1 THEN st
    ELSE LET n == Len(st.runs) - 2
         IN  MergeForceCollapse(MergeAt(st,
                 IF n > 0 /\ st.runs[n].length < st.runs[n + 2].length
                 THEN n - 1 ELSE n))

\* the next run of the array from offset low on is counted, made ascending,
\* extended to minRunLength by binary insertion, pushed, and the stack is
\* collapsed
RECURSIVE ArrayTimSortLoop(_, _, _)
\* made: the rest of the array with its first run ascending
PushRun(st, low, minRunLength, made, run, forced) ==
    ArrayTimSortLoop(
        MergeCollapse(
            [ st EXCEPT
                !.arr  = SubSeq(st.arr, 1, low)
                           \o BinaryInsertionSort(SubSeq(made, 1, forced), run)
                           \o SubSeq(made, forced + 1, Len(made)),
                !.runs = Append(@, [ base |-> low, length |-> forced ]) ]),
        low + forced, minRunLength)

ExtendRun(st, low, minRunLength, made, run) ==
    PushRun(st, low, minRunLength, made, run,
            IF run >= minRunLength THEN run
            ELSE IF minRunLength < Len(made) THEN minRunLength
            ELSE Len(made))

MakeRun(st, low, minRunLength, s, descending, run) ==
    ExtendRun(st, low, minRunLength,
              IF descending
              THEN Reverse(SubSeq(s, 1, run)) \o SubSeq(s, run + 1, Len(s))
              ELSE s,
              run)

CountAndMakeRun(st, low, minRunLength, s, descending) ==
    MakeRun(st, low, minRunLength, s, descending,
            IF Len(s) = 1 THEN 1 ELSE RunLength(s, 2, descending))

ArrayTimSortLoop(st, low, minRunLength) ==
    IF Len(st.arr) - low = 0 THEN st
    ELSE LET s == SubSeq(st.arr, low + 1, Len(st.arr))
         IN  CountAndMakeRun(st, low, minRunLength, s,
                             Len(s) > 1 /\ Compare(s[2], s[1]) < 0)

SortByDate(s) ==
    IF Len(s) < 2 THEN s
    ELSE MergeForceCollapse(
             ArrayTimSortLoop([ arr |-> s, runs |-> << >>, minGallop |-> kMinGallopWins ],
                              0, ComputeMinRunLength(Len(s), 0))).arr

(***************************************************************************)
(* fetchAllNews: one execution is a record                                 *)
(*   owner    who called it: "startup", "cron", "get" or "post"            *)
(*   pos      the source whose fetchRSSFeed it is awaiting                 *)
(*   allNews  the local array                                              *)
(***************************************************************************)
\* the call runs synchronously up to the first await
NewCycle(owner) == [ owner |-> owner, pos |-> 1, allNews |-> << >> ]

\* allNews.push(...news) raises a RangeError when news has more elements
\* than a call takes arguments; nothing in fetchAllNews catches it
PushThrows(outcome) == outcome.kind = "oversize"

\* allNews = news instead of allNews.push(...news)
Pushed_Overwrite(c, outcome, now) == fetchRSSFeed(c.pos, outcome, now)

\* allNews after allNews.push(...news)
Pushed(c, outcome, now) == c.allNews \o fetchRSSFeed(c.pos, outcome, now)

\* the loop has fetched its last source
LastSource(c) == c.pos = NumSources

\* the sorted array cut to its first three items
Merged_Limit(c, outcome, now) == Slice(SortByDate(Pushed(c, outcome, now)), 3)

\* the array fetchAllNews stores in newsCache and returns
Merged(c, outcome, now) == SortByDate(Pushed(c, outcome, now))

\* the loop pushing into newsCache itself instead of a local array
CacheDuringLoop_InPlace(cache, pushed) == pushed

\* newsCache while the loop runs: allNews is a local array (line 121), and
\* newsCache is assigned only after the sort (line 131)
CacheDuringLoop(cache, pushed) == cache

\* a cycle that raises storing what it had merged so far
CacheOnThrow_Partial(cache, c) == c.allNews

\* newsCache after a cycle raised: the throw at line 125 leaves the function
\* before the assignment of line 131
CacheOnThrow(cache, c) == cache

\* a cycle that raises resetting the timestamp
StampOnThrow_Reset(updated) == Null

\* lastUpdate after a cycle raised: line 132 is not reached
StampOnThrow(updated) == updated

(***************************************************************************)
(* The inputs of the server model: what a source may answer.               *)
(***************************************************************************)
\* the pubDate of the entry source src serves: later sources are newer
PubDateOf(src) == ToISOString(StartTime - (NumSources + 1 - src) * TickMs)

\* a title no classifier keyword occurs in
PlainTitle == << "-" >>

FeedOf(src) ==
    << [ guid |-> << rssSources[src] >>, link |-> << rssSources[src] >>,
         pubDate |-> PubDateOf(src), isoDate |-> IsoDateOf(PubDateOf(src)),
         title |-> PlainTitle, contentSnippet |-> UndefinedText ] >>

\* parseURL rejects: a network or parse error, or the request timeout the
\* parser applies by default to a source that does not respond (the server
\* sets none of its own: new Parser() at line 9 takes no options)
Rejected == [ kind |-> "reject",   items |-> << >> ]
Oversize == [ kind |-> "oversize", items |-> << >> ]
Served(src) == [ kind |-> "feed", items |-> FeedOf(src) ]

\* the sets of sources that may be unreachable for a whole run
DownSets == { {}, {1}, 1..NumSources }

\* a source that is down rejects; the others serve their feed, any of them
\* may serve an oversize one, and the last one fails now and then
Outcomes(src, unreachable) ==
    IF src \in unreachable
    THEN { Rejected }
    ELSE { Served(src), Oversize } \cup (IF src = NumSources THEN { Rejected } ELSE {})

(***************************************************************************)
(* The server.                                                             *)
(***************************************************************************)
VARIABLES
    now,        \* Date.now()
    newsCache,  \* let newsCache = []
    lastUpdate, \* let lastUpdate = null
    cycles,     \* the executions of fetchAllNews in flight, oldest first
    lastCron,   \* the instant of the last cron firing
    crashed,    \* the process has terminated on an unhandled rejection
    down,       \* the sources that are unreachable during this run
    out,        \* what the last step did towards a caller (see NoOut)
    snap,       \* history: the snapshot the last finished cycle produced
    history,    \* history: the outcomes a cycle observed alone was given
    overtaken   \* history: how many of the cycles in flight started before
                \* the cycle whose snapshot is stored (see SpecOverlap)

vars == << now, newsCache, lastUpdate, cycles, lastCron, crashed, down, out,
           snap, history, overtaken >>

(***************************************************************************)
(* out: route is the caller ("news", "refresh", "cron", "startup"); status *)
(* is 0 while the caller's cycle has just been started, the HTTP status of *)
(* the response once it is sent, and for a cycle nobody awaits the exit    *)
(* code of the process when its rejection terminates it.                   *)
(***************************************************************************)
NoOut == [ route |-> "none", status |-> 0, data |-> << >>, lastUpdate |-> Null, total |-> 0 ]

\* the caller has called fetchAllNews() and nothing has been answered yet
Pending(route) ==
    [ route |-> route, status |-> 0, data |-> << >>, lastUpdate |-> Null, total |-> 0 ]

\* res.json({success: true, data: newsCache, lastUpdate, total})
NewsResponse(cache, updated) ==
    [ route |-> "news", status |-> 200, data |-> cache, lastUpdate |-> updated,
      total |-> Len(cache) ]

\* res.json({success: true, message, total: news.length, lastUpdate})
RefreshResponse(news, updated) ==
    [ route |-> "refresh", status |-> 200, data |-> << >>, lastUpdate |-> updated,
      total |-> Len(news) ]

\* res.status(500).json({success: false, error})
ErrorResponse(route) ==
    [ route |-> route, status |-> 500, data |-> << >>, lastUpdate |-> Null, total |-> 0 ]

\* the rejection of a fetchAllNews() nobody awaits: the process exits with
\* code 1, or goes on after a warning
Unhandled(route, exits) ==
    [ route |-> route, status |-> IF exits THEN 1 ELSE 0, data |-> << >>,
      lastUpdate |-> Null, total |-> 0 ]

\* the route a cycle's owner answers on
RouteOf(owner) ==
    CASE owner = "get"  -> "news"
    []   owner = "post" -> "refresh"
    []   OTHER          -> owner

\* the test with >= in place of >
NeedsRefresh_AtTTL(cache, updated, t) ==
    \/ Len(cache) = 0
    \/ updated = Null
    \/ t - GetTime(updated) >= TTL

\* the test without its age clause
NeedsRefresh_NoAge(cache, updated, t) ==
    \/ Len(cache) = 0
    \/ updated = Null

\* the test without its clause on the length of the list
NeedsRefresh_NoEmpty(cache, updated, t) ==
    \/ updated = Null
    \/ t - GetTime(updated) > TTL

\* the test of the GET /api/news handler (lines 142-143)
NeedsRefresh(cache, updated, t) ==
    \/ Len(cache) = 0
    \/ updated = Null
    \/ t - GetTime(updated) > TTL

Remove(s, i) == SubSeq(s, 1, i - 1) \o SubSeq(s, i + 1, Len(s))

NoSnap == [ items |-> << >>, at |-> Null ]

Init ==
    /\ now = StartTime
    /\ newsCache = << >>
    /\ lastUpdate = Null
    /\ cycles = << NewCycle("startup") >>     \* line 196: fetchAllNews()
    /\ lastCron = StartTime
    /\ crashed = FALSE
    /\ down \in DownSets
    /\ out = Pending("startup")
    /\ snap = NoSnap
    /\ history = << >>
    /\ overtaken = 0

\* time passes
Tick ==
    /\ ~crashed
    /\ now < StartTime + MaxTicks * TickMs
    /\ now' = now + TickMs
    /\ out' = NoOut
    /\ UNCHANGED << newsCache, lastUpdate, cycles, lastCron, crashed, down, snap,
                   history, overtaken >>

\* cron.schedule('*/10 * * * *', ...): the callback calls fetchAllNews()
CronTick ==
    /\ ~crashed
    /\ now % CronPeriodMs = 0
    /\ lastCron < now
    /\ Len(cycles) < MaxInFlight
    /\ lastCron' = now
    /\ cycles' = Append(cycles, NewCycle("cron"))
    /\ out' = Pending("cron")
    /\ UNCHANGED << now, newsCache, lastUpdate, crashed, down, snap,
                   history, overtaken >>

\* GET /api/news with a cache that passes the test: answers at once
GetNewsCached ==
    /\ ~crashed
    /\ ~NeedsRefresh(newsCache, lastUpdate, now)
    /\ out' = NewsResponse(newsCache, lastUpdate)
    /\ UNCHANGED << now, newsCache, lastUpdate, cycles, lastCron, crashed, down, snap,
                   history, overtaken >>

\* GET /api/news with a cache that fails the test: await fetchAllNews()
GetNewsRefresh ==
    /\ ~crashed
    /\ NeedsRefresh(newsCache, lastUpdate, now)
    /\ Len(cycles) < MaxInFlight
    /\ cycles' = Append(cycles, NewCycle("get"))
    /\ out' = Pending("news")
    /\ UNCHANGED << now, newsCache, lastUpdate, lastCron, crashed, down, snap,
                   history, overtaken >>

\* POST /api/refresh: await fetchAllNews()
PostRefresh ==
    /\ ~crashed
    /\ Len(cycles) < MaxInFlight
    /\ cycles' = Append(cycles, NewCycle("post"))
    /\ out' = Pending("refresh")
    /\ UNCHANGED << now, newsCache, lastUpdate, lastCron, crashed, down, snap,
                   history, overtaken >>

\* the awaited fetchRSSFeed of cycle i resolves and the loop goes on to the
\* next source
FetchNext(i, outcome) ==
    /\ ~crashed
    /\ ~PushThrows(outcome)
    /\ ~LastSource(cycles[i])
    /\ cycles' = [ cycles EXCEPT ![i] =
                     [ @ EXCEPT !.pos = @ + 1,
                                !.allNews = Pushed(cycles[i], outcome, now) ] ]
    /\ newsCache' = CacheDuringLoop(newsCache, cycles'[i].allNews)
    /\ out' = NoOut
    /\ UNCHANGED << now, lastUpdate, lastCron, crashed, down, snap >>

\* the awaited fetchRSSFeed of the last source resolves: sort, store,
\* return; the awaiting handler answers in the same turn of the event loop
FetchLast(i, outcome) ==
    /\ ~crashed
    /\ ~PushThrows(outcome)
    /\ LastSource(cycles[i])
    /\ newsCache' = Merged(cycles[i], outcome, now)
    /\ lastUpdate' = ToISOString(now)
    /\ snap' = [ items |-> Merged(cycles[i], outcome, now), at |-> ToISOString(now) ]
    /\ cycles' = Remove(cycles, i)
    /\ out' = CASE cycles[i].owner = "get"  -> NewsResponse(newsCache', lastUpdate')
              []   cycles[i].owner = "post" -> RefreshResponse(newsCache', lastUpdate')
              []   OTHER                    -> NoOut
    /\ UNCHANGED << now, lastCron, crashed, down >>

\* allNews.push(...news) throws in a cycle a handler awaits: its catch
\* block answers 500
FetchThrowsHandled(i, outcome) ==
    /\ ~crashed
    /\ PushThrows(outcome)
    /\ cycles[i].owner \in { "get", "post" }
    /\ cycles' = Remove(cycles, i)
    /\ newsCache' = CacheOnThrow(newsCache, cycles[i])
    /\ lastUpdate' = StampOnThrow(lastUpdate)
    /\ out' = ErrorResponse(RouteOf(cycles[i].owner))
    /\ UNCHANGED << now, lastCron, crashed, down, snap >>

\* allNews.push(...news) throws in a cycle nobody awaits (lines 192, 196):
\* an unhandled rejection, which ends the process or only warns, by the
\* runtime's unhandled-rejections mode
FetchThrowsUnhandled(i, outcome) ==
    /\ ~crashed
    /\ PushThrows(outcome)
    /\ cycles[i].owner \in { "startup", "cron" }
    /\ cycles' = Remove(cycles, i)
    /\ crashed' \in BOOLEAN
    /\ newsCache' = CacheOnThrow(newsCache, cycles[i])
    /\ lastUpdate' = StampOnThrow(lastUpdate)
    /\ out' = Unhandled(RouteOf(cycles[i].owner), crashed')
    /\ UNCHANGED << now, lastCron, down, snap >>

\* a step of one of the cycles in flight
Fetch ==
    \E i \in 1..Len(cycles) : \E o \in Outcomes(cycles[i].pos, down) :
        /\ \/ FetchNext(i, o)
           \/ FetchLast(i, o)
           \/ FetchThrowsHandled(i, o)
           \/ FetchThrowsUnhandled(i, o)
        /\ UNCHANGED << history, overtaken >>

Next ==
    \/ Tick
    \/ CronTick
    \/ GetNewsCached
    \/ GetNewsRefresh
    \/ PostRefresh
    \/ Fetch

Spec == Init /\ [][Next]_vars

(***************************************************************************)
(* One execution of fetchAllNews observed alone, on every answer the       *)
(* sources may give: history records the outcome given for each source.    *)
(***************************************************************************)
\* entries per feed
MaxFeedLen == 1

\* a date before 1970: getTime() is negative
EarlyDate == ToISOString(0 - TickMs)
LateDate == ToISOString(StartTime - TickMs)
PubDates == { EarlyDate, LateDate, BadDate, None }

\* the feeds of n entries: entry k has guid and link k, and any pubDate
FeedsOfLen(n) ==
    { [ k \in 1..n |-> [ guid |-> << ToString(k) >>, link |-> << ToString(k) >>,
                        pubDate |-> d[k], isoDate |-> IsoDateOf(d[k]),
                        title |-> PlainTitle, contentSnippet |-> UndefinedText ] ] :
        d \in [ 1..n -> PubDates ] }

Feeds == UNION { FeedsOfLen(n) : n \in 0..MaxFeedLen }

FeedOutcomes == { Rejected, Oversize } \cup { [ kind |-> "feed", items |-> f ] : f \in Feeds }

InitCycle ==
    /\ now = StartTime
    /\ newsCache = << >>
    /\ lastUpdate = Null
    /\ \E owner \in { "get", "cron" } :
         /\ cycles = << NewCycle(owner) >>
         /\ out = Pending(RouteOf(owner))
    /\ lastCron = StartTime
    /\ crashed = FALSE
    /\ down = {}
    /\ snap = NoSnap
    /\ history = << >>
    /\ overtaken = 0

NextCycle ==
    /\ cycles # << >>
    /\ UNCHANGED overtaken
    /\ \E o \in FeedOutcomes :
         /\ history' = Append(history, o)
         /\ \/ FetchNext(1, o)
            \/ FetchLast(1, o)
            \/ FetchThrowsHandled(1, o)
            \/ FetchThrowsUnhandled(1, o)

SpecCycle == InitCycle /\ [][NextCycle]_vars

(***************************************************************************)
(* The same execution on feeds whose entries have a guid, a link, both or  *)
(* neither, an empty guid, or an isoDate in place of the pubDate.          *)
(***************************************************************************)
IdEntries ==
    { [ guid |-> g, link |-> l, pubDate |-> LateDate, isoDate |-> IsoDateOf(LateDate),
        title |-> PlainTitle, contentSnippet |-> UndefinedText ] :
        g \in { Undefined, << "" >>, << "g" >> }, l \in { Undefined, << "l" >> } }
    \cup
    { [ guid |-> << "g" >>, link |-> << "l" >>, pubDate |-> d[1], isoDate |-> d[2],
        title |-> PlainTitle, contentSnippet |-> UndefinedText ] :
        d \in { << None, EarlyDate >>, << EmptyDate, None >> } }

IdFeeds == UNION { [ 1..n -> IdEntries ] : n \in 0..MaxFeedLen }

IdOutcomes == { Rejected, Oversize } \cup { [ kind |-> "feed", items |-> f ] : f \in IdFeeds }

NextEntries ==
    /\ cycles # << >>
    /\ UNCHANGED overtaken
    /\ \E o \in IdOutcomes :
         /\ history' = Append(history, o)
         /\ \/ FetchNext(1, o)
            \/ FetchLast(1, o)
            \/ FetchThrowsHandled(1, o)
            \/ FetchThrowsUnhandled(1, o)

SpecEntries == InitCycle /\ [][NextEntries]_vars

(***************************************************************************)
(* The requests that start a cycle and the cycles they overlap with,       *)
(* observed with the order the cycles started in: cycles keeps them oldest *)
(* first and a new one is appended, so the cycles that started before the  *)
(* one whose snapshot is stored are the first overtaken of cycles.         *)
(***************************************************************************)
\* cycle i has ended: with its snapshot stored, the cycles before it are
\* the overtaken ones; having raised, it is no longer one of them
OvertakenAfter(n, i, stored) ==
    IF stored THEN i - 1
    ELSE IF i <= n THEN n - 1
    ELSE n

NextOverlap ==
    \/ GetNewsRefresh
    \/ PostRefresh
    \/ \E i \in 1..Len(cycles) : \E o \in Outcomes(cycles[i].pos, down) :
         /\ \/ FetchNext(i, o) /\ UNCHANGED overtaken
            \/ FetchLast(i, o) /\ overtaken' = OvertakenAfter(overtaken, i, TRUE)
            \/ (FetchThrowsHandled(i, o) \/ FetchThrowsUnhandled(i, o))
                 /\ overtaken' = OvertakenAfter(overtaken, i, FALSE)
         /\ UNCHANGED history

SpecOverlap == Init /\ [][NextOverlap]_vars

(***************************************************************************)
(* One entry classified: a cycle whose earlier sources gave nothing is     *)
(* given a feed of one entry, whose title and contentSnippet are phrases   *)
(* over a few words in both cases; history records the feed.               *)
(***************************************************************************)
\* words per title
MaxTitleWords == 3

\* Νέα, ΕΠΕΊΓΟΝ, ΦΌΡΟΣ, επιδότηση, λήγει, Breaking, αλλαγές
Words ==
    { << "Ν", "έ", "α" >>,
      << "Ε", "Π", "Ε", "Ί", "Γ", "Ο", "Ν" >>,
      << "Φ", "Ό", "Ρ", "Ο", "Σ" >>,
      << "ε", "π", "ι", "δ", "ό", "τ", "η", "σ", "η" >>,
      << "λ", "ή", "γ", "ε", "ι" >>,
      << "B", "r", "e", "a", "k", "i", "n", "g" >>,
      << "α", "λ", "λ", "α", "γ", "έ", "ς" >> }

\* the phrases of n words separated by one space
RECURSIVE PhrasesOf(_)
PhrasesOf(n) ==
    IF n = 0 THEN { << >> }
    ELSE IF n = 1 THEN Words
    ELSE { p \o << " " >> \o w : p \in PhrasesOf(n - 1), w \in Words }

Titles == { UndefinedText } \cup UNION { PhrasesOf(n) : n \in 0..MaxTitleWords }
\* two words joined by a colon: the capital sigma before it does not end a
\* word for the casing rules
Joined == << "Φ", "Ό", "Ρ", "Ο", "Σ", ":", "Ν", "Έ", "Α" >>

Snippets == { UndefinedText, Joined } \cup PhrasesOf(0) \cup PhrasesOf(1)

\* the priority field of each entry of rssSources, which no code reads
SourcePriority == << "high", "high", "high", "medium" >>

InitClassify ==
    /\ now = StartTime
    /\ newsCache = << >>
    /\ lastUpdate = Null
    /\ \E src \in { 1, NumSources } :
         cycles = << [ NewCycle("get") EXCEPT !.pos = src ] >>
    /\ out = Pending("news")
    /\ lastCron = StartTime
    /\ crashed = FALSE
    /\ down = {}
    /\ snap = NoSnap
    /\ history = << >>
    /\ overtaken = 0

\* the entry given to the cycle
Entry(title, snippet) ==
    [ guid |-> << "1" >>, link |-> << "1" >>,
      pubDate |-> LateDate, isoDate |-> IsoDateOf(LateDate),
      title |-> title, contentSnippet |-> snippet ]

NextClassify ==
    /\ history = << >>
    /\ \E title \in Titles : \E snippet \in Snippets :
         LET o == [ kind |-> "feed", items |-> << Entry(title, snippet) >> ]
         IN  /\ history' = Append(history, o)
             /\ \/ FetchNext(1, o)
                \/ FetchLast(1, o)
    /\ UNCHANGED overtaken

SpecClassify == InitClassify /\ [][NextClassify]_vars

(***************************************************************************)
(* Properties.                                                             *)
(***************************************************************************)
\* a snapshot exists and is at most TTL old
WithinTTL == lastUpdate # Null /\ now - GetTime(lastUpdate) <= TTL
\* a snapshot with items exists and is more than TTL old
Stale == Len(newsCache) > 0 /\ lastUpdate # Null /\ now - GetTime(lastUpdate) > TTL
\* the step answers GET /api/news without waiting for a cycle
AnswersAtOnce == out'.route = "news" /\ out'.status = 200 /\ cycles' = cycles
\* the step answers a GET /api/news that waited for its cycle
AnswersAfterCycle == out'.route = "news" /\ out'.status = 200 /\ Len(cycles') < Len(cycles)
\* the step ends a cycle that raised: a 500 answer, or the rejection of a
\* cycle nobody awaits
CycleFails ==
    /\ Len(cycles') < Len(cycles)
    /\ (out'.status = 500 \/ out'.route \in { "cron", "startup" })
\* the step ends the cycle at position i, which stores its snapshot
CycleStores(i) ==
    /\ Len(cycles') < Len(cycles)
    /\ ~CycleFails
    /\ cycles' = Remove(cycles, i)
\* the sequence's items that come from source src
ItemsFrom(items, src) == SelectSeq(items, LAMBDA it : it.source = rssSources[src])

Range(f) == { f[x] : x \in DOMAIN f }

\* the total number of entries in the first n outcomes
RECURSIVE SumLen(_, _)
SumLen(h, n) == IF n = 0 THEN 0 ELSE SumLen(h, n - 1) + Len(h[n].items)

\* the position of a source id in rssSources
SourceIndex(id) == CHOOSE s \in 1..NumSources : rssSources[s] = id

\* C1: in every reachable state at most one execution of fetchAllNews is in
\* flight, whatever the interleaving of the startup fetch, cron firings,
\* GET /api/news and POST /api/refresh.
SingleFlight == Len(cycles) <= 1

\* C2: a GET /api/news that arrives while a cycle is in flight starts no
\* cycle of its own (it waits for the one in flight).
GetCoalesces ==
    [][ (cycles # << >> /\ out' = Pending("news")) => cycles' = cycles ]_vars

\* C3 as stated: once a refresh has succeeded, no GET /api/news made while
\* now - lastUpdate <= TTL starts a fetch cycle.
GetWithinTTLStartsNoCycle ==
    [][ WithinTTL => out' # Pending("news") ]_vars

\* C3 as amended: once a refresh has succeeded with at least one item, a
\* GET /api/news made while now - lastUpdate <= TTL starts no fetch cycle,
\* can be answered, and is answered at once with the current snapshot, the
\* cache and the cycles in flight left as they were.
FreshGetServedFromCache ==
    [][ (~crashed /\ Len(newsCache) > 0 /\ WithinTTL) =>
          /\ out' # Pending("news")
          /\ ENABLED GetNewsCached
          /\ out'.route = "news" =>
               \/ Len(cycles') < Len(cycles)
               \/ /\ out' = NewsResponse(newsCache, lastUpdate)
                  /\ UNCHANGED << newsCache, lastUpdate, cycles >> ]_vars

\* a GET /api/news answered from the cache exactly TTL after the refresh
FreshGetWitness ==
    /\ out = NewsResponse(newsCache, lastUpdate)
    /\ out.total > 0
    /\ now - GetTime(lastUpdate) = TTL

\* C4: once the snapshot is more than TTL old, a GET /api/news is never
\* answered from it: the request starts exactly one cycle of its own, and
\* the answer it sends when that cycle ends carries the snapshot the cycle
\* has just stored, dated at that instant.  Time passing changes neither
\* the cache nor the cycles: staleness is a matter of the read alone.
StaleGetRefetches ==
    [][ /\ (~crashed /\ Stale) =>
             /\ ~AnswersAtOnce
             /\ Len(cycles) < MaxInFlight => ENABLED GetNewsRefresh
             /\ out' = Pending("news") => cycles' = Append(cycles, NewCycle("get"))
        /\ AnswersAfterCycle =>
             /\ out'.lastUpdate = ToISOString(now)
             /\ out'.data = newsCache'
             /\ out'.lastUpdate = lastUpdate'
             /\ ~NeedsRefresh(out'.data, out'.lastUpdate, now) \/ out'.total = 0
        /\ now' # now => UNCHANGED << newsCache, lastUpdate, cycles >> ]_vars

\* a GET /api/news has just started its cycle on a stale snapshot
StaleGetWitness == Stale /\ out = Pending("news")

\* C5: a POST /api/refresh or a cron firing that arrives while a cycle is
\* in flight joins it: it starts no cycle of its own.
ForceRefreshJoins ==
    [][ (cycles # << >> /\ out' \in { Pending("refresh"), Pending("cron") })
          => cycles' = cycles ]_vars

\* C6: whatever subset of the sources fails, the cycle ends without
\* raising (it raises, and its caller gets an error, only on an oversize
\* feed); a source that failed has no item in the result and every other
\* source has all of its entries there, each once.
SourceIsolation ==
    /\ history # << >> => Len(history) = (IF cycles = << >> THEN Len(history) ELSE cycles[1].pos - 1)
    /\ (out.status \in { 1, 500 } \/ crashed \/ (cycles = << >> /\ lastUpdate = Null))
         => (history # << >> /\ history[Len(history)] = Oversize)
    /\ (cycles = << >> /\ lastUpdate # Null) =>
         /\ Len(history) = NumSources
         /\ out.status \in { 0, 200 }
         /\ \A s \in 1..NumSources :
              /\ Len(ItemsFrom(newsCache, s)) = Len(history[s].items)
              /\ { it.id : it \in Range(ItemsFrom(newsCache, s)) }
                   = { << rssSources[s], history[s].items[k].guid[1] >> :
                         k \in 1..Len(history[s].items) }
         /\ Len(newsCache) = SumLen(history, NumSources)

\* sources 1 and 3 failed, sources 2 and 4 served one entry each, and the
\* GET /api/news that waited is answered with both
SourceIsolationWitness ==
    /\ cycles = << >>
    /\ Len(history) = NumSources
    /\ history[1] = Rejected /\ history[3] = Rejected
    /\ out.route = "news" /\ out.status = 200 /\ out.total = 2

\* C7: a caller is answered with an error only while the cache has never
\* been populated; once a snapshot exists, a failed cycle is answered with
\* that snapshot.
ErrorOnlyWhenNeverPopulated == out.status = 500 => lastUpdate = Null

\* C8: in every reachable state the cache, and the answer a reader has just
\* been sent, is the pair (items, generatedAt) one finished cycle produced:
\* never the array of a cycle still fetching, never the items of one cycle
\* with the date of another; and such a pair holds the entry of every source
\* that always serves.
SnapshotAtomic ==
    /\ newsCache = snap.items /\ lastUpdate = snap.at
    /\ (lastUpdate = Null) => newsCache = << >>
    /\ (lastUpdate # Null) =>
         \A s \in (1..(NumSources - 1)) \ down : Len(ItemsFrom(newsCache, s)) = 1
    /\ (out.route = "news" /\ out.status = 200) =>
         /\ out.data = snap.items /\ out.lastUpdate = snap.at
         /\ out.total = Len(snap.items)

\* a reader is answered with a snapshot while a cycle is past its first
\* sources and has items in its local array
SnapshotAtomicWitness ==
    /\ out.route = "news" /\ out.status = 200 /\ out.total > 0
    /\ cycles # << >>
    /\ Len(cycles[1].allNews) > 0
    /\ cycles[1].allNews # newsCache

\* C9: the array a cycle stores is sorted non-increasing by publishedAt
\* (for the dates that parse), and items of equal publishedAt keep the
\* order they were fetched in (source order: each feed has one entry here).
SortedByDate ==
    (cycles = << >> /\ lastUpdate # Null) =>
        \A i, j \in 1..Len(newsCache) :
            (i < j /\ ~IsNaNDate(newsCache[i].publishedAt)
                   /\ ~IsNaNDate(newsCache[j].publishedAt)) =>
                /\ GetTime(newsCache[i].publishedAt) >= GetTime(newsCache[j].publishedAt)
                /\ GetTime(newsCache[i].publishedAt) = GetTime(newsCache[j].publishedAt)
                     => SourceIndex(newsCache[i].source) <= SourceIndex(newsCache[j].source)

\* C10: a cycle the cron job started never terminates the process when it
\* fails.
SchedulerNeverCrashes == ~(crashed /\ out.route = "cron")

\* C11: every cycle completes and every caller waiting on one is answered,
\* also when a source does not respond: the process never ends while a
\* GET /api/news or a POST /api/refresh is still waiting for its cycle.
NoCallerAbandoned ==
    ~(crashed /\ \E i \in 1..Len(cycles) : cycles[i].owner \in { "get", "post" })

\* C14: a cycle that fails changes neither newsCache nor lastUpdate: both
\* keep the values the last successful cycle stored.
FailedCycleKeepsSnapshot ==
    [][ CycleFails =>
          /\ newsCache' = newsCache /\ lastUpdate' = lastUpdate
          /\ newsCache' = snap.items /\ lastUpdate' = snap.at ]_vars

\* a handler's cycle has just failed on a cache that held a snapshot
FailedCycleWitness ==
    /\ out.status = 500
    /\ lastUpdate # Null
    /\ Len(newsCache) > 0

\* C18: GET /api/news starts a cycle exactly when the list is empty, or
\* lastUpdate is unset, or now - lastUpdate exceeds 10 minutes; otherwise it
\* answers from the cache. A snapshot of zero items is therefore refetched
\* by the next GET even within the 10 minutes.
GetRefetchesExactlyWhen ==
    [][ ~crashed =>
          LET must == \/ Len(newsCache) = 0
                      \/ lastUpdate = Null
                      \/ now - GetTime(lastUpdate) > TTL
          IN  /\ out' = Pending("news") => must
              /\ AnswersAtOnce => ~must
              /\ must /\ Len(cycles) < MaxInFlight => ENABLED GetNewsRefresh
              /\ ~must => ENABLED GetNewsCached ]_vars

\* a GET has started a cycle on a snapshot of zero items stored less than
\* 10 minutes ago
EmptySnapshotRefetched ==
    /\ out = Pending("news")
    /\ WithinTTL
    /\ newsCache = << >>
    /\ snap # NoSnap

\* C19: lastUpdate is unset exactly while no cycle has stored a snapshot,
\* the list is empty while it is unset, it changes only when a cycle stores
\* its snapshot, and it never decreases, overlapping cycles included.
LastUpdateMonotone ==
    [][ /\ (lastUpdate = Null) = (snap = NoSnap)
        /\ lastUpdate = Null => newsCache = << >>
        /\ lastUpdate # Null =>
             lastUpdate' # Null /\ GetTime(lastUpdate') >= GetTime(lastUpdate)
        /\ lastUpdate' # lastUpdate =>
             /\ \E i \in 1..Len(cycles) : CycleStores(i)
             /\ lastUpdate' = ToISOString(now) ]_vars

\* a snapshot has replaced an earlier one and another cycle has then failed
LastUpdateWitness ==
    /\ lastUpdate # Null
    /\ GetTime(lastUpdate) > StartTime
    /\ out.status \in { 1, 500 }

\* C20: overlapping cycles store their snapshots in the order they finish,
\* so the cache holds the output of the cycle that finished last; and a
\* cycle never overwrites the snapshot of a cycle that started after it.
LaterStartedSnapshotKept ==
    [][ \A i \in 1..Len(cycles) :
          CycleStores(i) =>
            /\ newsCache' = snap'.items /\ lastUpdate' = snap'.at
            /\ i > overtaken ]_vars

\* the items built so far: stored, or still in the local array of the cycle
Built == newsCache \o (IF cycles = << >> THEN << >> ELSE cycles[1].allNews)
\* the text the classifiers of the entry of history read, lower-cased
EntryText ==
    LET raw == history[1].items[1]
    IN  ToLowerCase((IF raw.title = UndefinedText
                     THEN << "u", "n", "d", "e", "f", "i", "n", "e", "d" >>
                     ELSE raw.title)
                    \o << " " >>
                    \o (IF raw.contentSnippet = UndefinedText
                        THEN << >> ELSE raw.contentSnippet))
\* some keyword of the set occurs in the text
Occurs(keywords, text) ==
    \E kw \in Range(keywords) : \E i \in 1..Len(text) :
        /\ i + Len(kw) - 1 <= Len(text)
        /\ \A j \in 1..Len(kw) : text[i + j - 1] = kw[j]
\* the keywords of a tag
KeywordsOf(tag) == (CHOOSE e \in Range(tagKeywords) : e.tag = tag).keywords

\* C12: the tags of an item are at most 3, and are the first 3 (or fewer) of
\* Νέο, Επείγον, Φορολογία, Επιδότηση, in that order, that have a keyword
\* occurring in the lower-cased text.
TagsFirstThreeInOrder ==
    \A k \in 1..Len(Built) :
        LET declared == << "Νέο", "Επείγον", "Φορολογία", "Επιδότηση" >>
            matching == SelectSeq(declared,
                                  LAMBDA tag : Occurs(KeywordsOf(tag), EntryText))
        IN  /\ Len(Built[k].tags) <= 3
            /\ Built[k].tags = SubSeq(matching, 1,
                                      IF Len(matching) > 3 THEN 3 ELSE Len(matching))

\* a text every tag matches: the item has the first three
FourTagsMatchWitness ==
    /\ Len(Built) = 1
    /\ \A e \in Range(tagKeywords) : Occurs(e.keywords, EntryText)
    /\ Built[1].tags = << "Νέο", "Επείγον", "Φορολογία" >>

\* C13: the priority of an item is high if a high-priority keyword occurs in
\* its text, otherwise medium if a medium-priority keyword occurs, otherwise
\* low, whatever the priority its source declares.
PriorityByKeywords ==
    \A k \in 1..Len(Built) :
        Built[k].priority =
            (IF Occurs(highPriorityKeywords, EntryText) THEN "high"
             ELSE IF Occurs(mediumPriorityKeywords, EntryText) THEN "medium"
             ELSE "low")

\* a text with a high and a medium keyword, from the source that declares
\* medium: the item is high
HighWinsWitness ==
    /\ Len(Built) = 1
    /\ Occurs(highPriorityKeywords, EntryText)
    /\ Occurs(mediumPriorityKeywords, EntryText)
    /\ SourcePriority[SourceIndex(Built[1].source)] = "medium"
    /\ Built[1].priority = "high"

\* C17: isBreaking of an item is true exactly when a breaking keyword occurs
\* in its lower-cased text; it does not follow from the priority.
BreakingByKeywords ==
    \A k \in 1..Len(Built) :
        Built[k].isBreaking = Occurs(breakingKeywords, EntryText)

\* a breaking item whose priority is not high, from a title in capitals
BreakingNotHighWitness ==
    /\ Len(Built) = 1
    /\ Built[1].isBreaking
    /\ Built[1].priority # "high"
    /\ Built[1].title # ToLowerCase(Built[1].title)

\* an item of high priority that is not breaking
HighNotBreakingWitness ==
    /\ Len(Built) = 1
    /\ ~Built[1].isBreaking
    /\ Built[1].priority = "high"

\* the number of elements of the sequence that satisfy Test
Count(items, Test(_)) == Cardinality({ k \in 1..Len(items) : Test(items[k]) })

\* C15: the output of a cycle has as many items as its per-source fetches
\* returned in all, and every fetched item occurs in it exactly as many
\* times as it was fetched: nothing is dropped or merged across sources.
MergeDropsNothing ==
    (cycles = << >> /\ lastUpdate # Null) =>
        /\ Len(newsCache) = SumLen(history, NumSources)
        /\ \A s \in 1..NumSources : \A raw \in Range(history[s].items) :
             Count(newsCache,
                   LAMBDA it : /\ it.source = rssSources[s]
                               /\ it.id = << rssSources[s], raw.guid[1] >>
                               /\ it.url = raw.link)
               = Count(history[s].items, LAMBDA e : e.guid = raw.guid /\ e.link = raw.link)

\* every source served an entry with the same guid and link as the others:
\* the output has all four
MergeWitness ==
    /\ cycles = << >>
    /\ Len(history) = NumSources
    /\ \A s \in 1..NumSources : history[s].kind = "feed" /\ Len(history[s].items) = 1
    /\ Len(newsCache) = NumSources
    /\ \A k \in 1..NumSources : newsCache[k].url = << "1" >>

\* C16: a feed entry with neither guid nor link is left out of the fetch
\* result, so every item of a snapshot has an id made of its source's id and
\* a guid or link that is present.
EntriesWithoutIdDiscarded ==
    (cycles = << >> /\ lastUpdate # Null) =>
        /\ \A k \in 1..Len(newsCache) :
             \E raw \in Range(history[SourceIndex(newsCache[k].source)].items) :
                 \E v \in { raw.guid, raw.link } :
                     /\ v # << >>
                     /\ newsCache[k].id = << newsCache[k].source, v[1] >>
        /\ \A s \in 1..NumSources :
             Len(ItemsFrom(newsCache, s))
               = Len(SelectSeq(history[s].items,
                               LAMBDA raw : raw.guid # << >> \/ raw.link # << >>))

====
